---------------------------- MODULE Spec2Model ----------------------------
(***************************************************************************)
(* The chaos-driven Mealy cipher of src/src/App.jsx: the LogisticMoore     *)
(* generator, buildMealyMachine, MealyMachine.encryptBytes/decryptBytes    *)
(* and the App's key-driven rebuild (useMemo on sharedKey).                *)
(*                                                                         *)
(* Numbers.  TLC integers are 32-bit signed, so                            *)
(*  - an unsigned 32-bit value (an element of the Uint32Array stream) is a *)
(*    record [hi, lo] of two 16-bit limbs, value = hi * 65536 + lo;        *)
(*  - the generator state, an IEEE double in the source, is a fixed-point  *)
(*    number counted in units of 1/One (One = 1000000, the divisor of the  *)
(*    seed formula), every product truncated to that grid.                 *)
(* Arrays are functions over 0..len-1 (the source's indices); byte buffers *)
(* are sequences, so the source's bytes[i] is bytes[i + 1] here.           *)
(***************************************************************************)
EXTENDS Integers, Sequences, FiniteSets, TLC

VARIABLES
    sharedKey,      \* App state sharedKey: the key string, as char codes
    moore,          \* the LogisticMoore instance of the latest build
    mealyMachine,   \* the MealyMachine the App's useMemo holds
    builtTables,    \* history: the tables buildMealyMachine returned for sharedKey
    firstBuild,     \* history: per key, the tables of the first build from it
    entropyUse,     \* history: the stream the latest build requested, and its
                    \* cursor after the transition fill and at the end
    lastEnc,        \* the latest encryptBytes call: its argument and its result
    lastDec,        \* the latest decryptBytes call since then on the current
                    \* machine: its argument and its result
    fnCall,         \* a call of one of the module-level functions (calculateNPCR,
                    \* calculateEntropy, _initializeSeed): arguments and result
    generators      \* LogisticMoore instances constructed side by side, each with
                    \* the streams it has returned

appVars ==
    <<sharedKey, moore, mealyMachine, builtTables, firstBuild, entropyUse, lastEnc, lastDec>>

vars ==
    <<sharedKey, moore, mealyMachine, builtTables, firstBuild, entropyUse, lastEnc, lastDec,
      fnCall, generators>>

---------------------------------------------------------------------------
(* Bounds of the model *)

\* number of states of the automaton (1024 in the App, App.jsx:210)
NStates == 4

\* alphabet size of the automaton (256 in the App, App.jsx:210)
MAlphabet == 3

\* how far the long inputs (longer than the trajectory cap) exceed the cap
LongExtra == 1

---------------------------------------------------------------------------
(* Program constants *)

\* 1000000.0, the divisor of the seed formula; the fixed-point unit
One == 1000000

\* the modulus 800000 of the seed formula
SeedSpan == 800000

\* this.r = 3.9999, as RNum / RDen
RNum == 39999

RDen == 10000

\* default stabilizationSteps
StabilizationSteps == 1000

\* state * 1e14 / 256 for state = s / One is s * (10^8 / 256) = s * 390625, exactly
Magnify == 100000000 \div 256

\* warm-up transitions of encryptBytes/decryptBytes
WarmupSteps == 500

\* trajectory cap: only steps with i < 20 are recorded
TrajectoryCap == 20

\* 2^16, the limb base
Limb == 2^16

\* a Uint8Array element holds value mod 256
ByteMod == 256

\* The warm-up indexes delta with j % 256, the literal that equals the App's
\* alphabet size; the model scales the two together.
WarmupModulus == MAlphabet

\* JavaScript's undefined / NaN: what an out-of-range read yields.  No table
\* entry is negative, so -1 is no value of the program.
undefined == 0 - 1

\* marks a read that raises TypeError (indexing a row that is undefined)
TypeError == 0 - 2

\* F applied to the value of v: v is evaluated first, as a statement sequence
\* does, so that a long loop is not evaluated as one nested expression
Then(v, F(_)) == CHOOSE r \in { F(x) : x \in { v } } : TRUE

\* for (i = from; i < to; i++) acc = Step(acc, i)
\* (the iterations from..to-1 in order; they are composed by halves only to
\* keep the evaluation shallow)
RECURSIVE For(_, _, _, _)
For(Step(_, _), acc, from, to) ==
    IF to <= from THEN acc
    ELSE IF to = from + 1 THEN Step(acc, from)
    ELSE LET mid == (from + to) \div 2
             Rest(half) == For(Step, half, mid, to)
         IN  Then(For(Step, acc, from, mid), Rest)

\* for (i = from; i > to; i--) acc = Step(acc, i)
ForDown(Step(_, _), acc, from, to) ==
    LET Body(a, k) == Step(a, from - k)
    IN  For(Body, acc, 0, from - to)

---------------------------------------------------------------------------
(* 32-bit arithmetic *)

\* the limbs of integer x (hi is signed when x is negative)
Split(x) == [hi |-> x \div Limb, lo |-> x % Limb]

\* ToInt32 of hi * 65536 + lo: wrap to two's-complement signed 32 bits
ToInt32(hi, lo) ==
    LET h == hi % Limb
    IN  IF h >= Limb \div 2 THEN (h - Limb) * Limb + lo ELSE h * Limb + lo

\* mutant of Shl5: the shift is by 4
Shl4(hash) ==
    LET s == Split(hash)
        l == s.lo * 16
    IN  ToInt32(s.hi * 16 + l \div Limb, l % Limb)

\* hash << 5 on an int32
Shl5(hash) ==
    LET s == Split(hash)
        l == s.lo * 32
    IN  ToInt32(s.hi * 32 + l \div Limb, l % Limb)

\* ((hash << 5) - hash + charCode) | 0
HashStep(hash, charCode) ==
    LET a == Split(Shl5(hash))
        h == Split(hash)
        l == a.lo - h.lo + charCode
    IN  ToInt32(a.hi - h.hi + l \div Limb, l % Limb)

\* mutant of AbsMod: Math.abs is left out, so the remainder takes the sign of hash
AbsModSigned(hash, modulus) ==
    IF hash >= 0 THEN hash % modulus
    ELSE 0 - ((((-(hash + 1)) % modulus) + 1) % modulus)

\* Math.abs(hash) % modulus; Math.abs(-2^31) is 2^31, which fits no int32
AbsMod(hash, modulus) ==
    IF hash >= 0 THEN hash % modulus
    ELSE (((-(hash + 1)) % modulus) + 1) % modulus

\* (a * b) >>> 0 for 0 <= a, b < 2^31, as the limbs of an unsigned 32-bit value
MulU32(a, b) ==
    LET x == Split(a)
        y == Split(b)
        t == (x.lo \div 256) * y.lo
        l == (t % 256) * 256 + (x.lo % 256) * y.lo
        h == ((x.hi * y.lo) % Limb) + ((x.lo * y.hi) % Limb) + t \div 256 + l \div Limb
    IN  [hi |-> h % Limb, lo |-> l % Limb]

\* Math.abs(u) % k for an unsigned 32-bit u and 0 < k <= 2^15
U32Mod(u, k) == ((u.hi % k) * (Limb % k) + u.lo) % k

\* floor(x * y / One) for fixed-point x, y with x < 4 * One, y <= One
FixMul(x, y) ==
    LET a == x \div 1000
        b == x % 1000
        c == y \div 1000
        d == y % 1000
        e == a * d + b * c
    IN  a * c + e \div 1000 + ((e % 1000) * 1000 + b * d) \div One

---------------------------------------------------------------------------
(* LogisticMoore *)

\* the 32-bit hash of the key:
\* for (i = 0; i < key.length; i++) hash = ((hash << 5) - hash + key.charCodeAt(i)) | 0
KeyHash(key) ==
    LET Body(hash, i) == HashStep(hash, key[i + 1])
    IN  For(Body, 0, 0, Len(key))

\* the value of hash after each iteration of that loop
HashTrace(key) ==
    LET Body(trace, i) ==
            Append(trace, HashStep(IF i = 0 THEN 0 ELSE trace[i], key[i + 1]))
    IN  For(Body, << >>, 0, Len(key))

\* 0.1 + (Math.abs(hash) % 800000) / 1000000.0, in units of 1/One
_initializeSeed(key) == One \div 10 + AbsMod(KeyHash(key), SeedSpan)

\* r * state, truncated: floor(39999 * s / 10000) = 4s - ceil(s / 10000)
RTimes(state) == ((RNum + 1) \div RDen) * state - (state + RDen - 1) \div RDen

\* mutant of _transition: a sign slip, next = r * state * (1 + state)
_transitionPlus(state) ==
    LET next == FixMul(RTimes(state), One + state)
    IN  IF next <= 0 \/ next >= One THEN One \div 2 ELSE next

\* next = r * state * (1 - state); if (next <= 0 || next >= 1) next = 0.5
_transition(state) ==
    LET next == FixMul(RTimes(state), One - state)
    IN  IF next <= 0 \/ next >= One THEN One \div 2 ELSE next

\* mutant of _stabilizeState: the loop stops one transition early
_stabilizeStateShort(state, steps) ==
    LET Body(st, i) == _transition(st)
    IN  For(Body, state, 0, steps - 1)

\* for (i = 0; i < this.stabilizationSteps; i++) this._transition()
_stabilizeState(state, steps) ==
    LET Body(st, i) == _transition(st)
    IN  For(Body, state, 0, steps)

\* mutant of LogisticMoore: state is shared by all instances and seeded only
\* by the first one constructed
LogisticMooreShared(keyString, stabilizationSteps) ==
    [ r |-> RNum,
      stabilizationSteps |-> stabilizationSteps,
      state |-> IF generators = << >>
                THEN _stabilizeState(_initializeSeed(keyString), stabilizationSteps)
                ELSE generators[1].gen.state ]

\* new LogisticMoore(keyString, stabilizationSteps)
LogisticMoore(keyString, stabilizationSteps) ==
    [ r |-> RNum,
      stabilizationSteps |-> stabilizationSteps,
      state |-> _stabilizeState(_initializeSeed(keyString), stabilizationSteps) ]

\* Math.floor(Math.floor(state * 1e14) / 256) >>> 0 of the (already advanced) state
Extract(state) == MulU32(state, Magnify)

\* produceOutput: the generator after the call, and the value returned
produceOutput(gen) ==
    LET g == [gen EXCEPT !.state = _transition(gen.state)]
    IN  [gen |-> g, value |-> Extract(g.state)]

\* generateStream(count): the generator afterwards and the Uint32Array
\* (stream[i] of the source is stream[i + 1])
generateStream(gen, count) ==
    LET Body(acc, i) ==
            LET o == produceOutput(acc.gen)
            IN  [gen |-> o.gen, stream |-> [acc.stream EXCEPT ![i + 1] = o.value]]
    IN  For(Body, [gen |-> gen, stream |-> [k \in 1 .. count |-> [hi |-> 0, lo |-> 0]]],
            0, count)

---------------------------------------------------------------------------
(* MealyMachine *)

\* new Int32Array(len) / new Uint8Array(len): zero-filled, indexed from 0
ZeroArray(len) == [i \in 0 .. len - 1 |-> 0]

\* mutant of NewBuffer: the buffer is allocated one byte too long
NewBufferPadded(len) == [k \in 1 .. len + 1 |-> 0]

\* new Uint8Array(len) used as a byte buffer (a sequence here)
NewBuffer(len) == [k \in 1 .. len |-> 0]

\* storing into an Int32Array: NaN / undefined become 0
StoreInt32(v) == IF v = undefined THEN 0 ELSE v

\* storing into a Uint8Array: NaN / undefined become 0, numbers wrap to 8 bits
StoreUint8(v) == IF v = undefined THEN 0 ELSE v % ByteMod

\* constructor(nStates, mAlphabet)
MealyMachine(nStates, mAlphabet) ==
    [ n |-> nStates,
      m |-> mAlphabet,
      currentState |-> 0,
      delta |-> [s \in 0 .. nStates - 1 |-> ZeroArray(mAlphabet)],
      lambdaTable |-> [s \in 0 .. nStates - 1 |-> ZeroArray(mAlphabet)],
      lambdaInv |-> [s \in 0 .. nStates - 1 |-> ZeroArray(mAlphabet)] ]

\* table[s][x] as JavaScript reads it: TypeError when the row table[s] is
\* undefined, undefined when the column is out of range
Lookup(machine, table, s, x) ==
    IF ~(0 <= s /\ s < machine.n) THEN TypeError
    ELSE IF ~(0 <= x /\ x < machine.m) THEN undefined
    ELSE table[s][x]

\* mutant of reset: currentState is left as the previous call left it
resetForgotten(machine) == machine

\* mutant of reset: the whole object is re-initialised, tables included
resetEverything(machine) == MealyMachine(machine.n, machine.m)

\* reset()
reset(machine) == [machine EXCEPT !.currentState = 0]

\* mutant of WarmupStep: the assignment is written the wrong way round,
\* this.delta[this.currentState][j % 256] = this.currentState
WarmupStepReversed(w, j) ==
    IF Lookup(w.machine, w.machine.delta, w.machine.currentState, j % WarmupModulus) = TypeError
    THEN [w EXCEPT !.threw = TRUE]
    ELSE [w EXCEPT !.machine.delta[w.machine.currentState][j % WarmupModulus] =
                       w.machine.currentState]

\* one warm-up iteration: this.currentState = this.delta[this.currentState][j % 256]
\* (nothing more runs once an iteration has raised)
WarmupStep(w, j) ==
    LET v == Lookup(w.machine, w.machine.delta, w.machine.currentState, j % WarmupModulus)
    IN  IF w.threw THEN w
        ELSE IF v = TypeError THEN [w EXCEPT !.threw = TRUE]
        ELSE [w EXCEPT !.machine.currentState = v]

\* mutant of ResetAndWarm: the loop stops one iteration early (j < 499)
ResetAndWarmShort(machine) ==
    For(WarmupStep, [machine |-> reset(machine), threw |-> FALSE], 0, WarmupSteps - 1)

\* this.reset(); for (j = 0; j < 500; j++) WarmupStep
ResetAndWarm(machine) ==
    For(WarmupStep, [machine |-> reset(machine), threw |-> FALSE], 0, WarmupSteps)

\* mutant of NextState: the byte position is not added
NextStateNoPosition(d, i, n) == IF d = undefined THEN undefined ELSE d % n

\* mutant of NextState: the sum is not reduced mod n
NextStateUnreduced(d, i, n) == IF d = undefined THEN undefined ELSE d + i

\* (delta[stateIdx][input] + i) % this.n; NaN when the delta entry is undefined
NextState(d, i, n) == IF d = undefined THEN undefined ELSE (d + i) % n

\* mutant of Record: the cap is tested with <=
RecordOneMore(trajectory, i, step) ==
    IF i <= TrajectoryCap THEN Append(trajectory, step) ELSE trajectory

\* if (i < 20) trajectory.push(step)
Record(trajectory, i, step) ==
    IF i < TrajectoryCap THEN Append(trajectory, step) ELSE trajectory

\* mutant of EncryptStep: the position added to the delta entry is counted
\* from the end of the input
EncryptStepFromEnd(acc, bytes, i) ==
    LET stateIdx == acc.machine.currentState
        input == bytes[i + 1]
        output == Lookup(acc.machine, acc.machine.lambdaTable, stateIdx, input)
        nextState == NextState(Lookup(acc.machine, acc.machine.delta, stateIdx, input),
                               Len(bytes) - 1 - i, acc.machine.n)
    IN  IF acc.threw THEN acc
        ELSE IF output = TypeError THEN [acc EXCEPT !.threw = TRUE]
        ELSE [ machine |-> [acc.machine EXCEPT !.currentState = nextState],
               ciphertext |-> [acc.ciphertext EXCEPT ![i + 1] = StoreUint8(output)],
               trajectory |-> Record(acc.trajectory, i,
                                     [t |-> i, s |-> stateIdx, i |-> input,
                                      sPrime |-> nextState, o |-> output]),
               visited |-> Append(acc.visited, stateIdx),
               threw |-> FALSE ]

\* mutant of EncryptStep: the entry pushed reads this.currentState after the
\* assignment, s: nextState
EncryptStepRecordsAfter(acc, bytes, i) ==
    LET stateIdx == acc.machine.currentState
        input == bytes[i + 1]
        output == Lookup(acc.machine, acc.machine.lambdaTable, stateIdx, input)
        nextState == NextState(Lookup(acc.machine, acc.machine.delta, stateIdx, input),
                               i, acc.machine.n)
    IN  IF acc.threw THEN acc
        ELSE IF output = TypeError THEN [acc EXCEPT !.threw = TRUE]
        ELSE [ machine |-> [acc.machine EXCEPT !.currentState = nextState],
               ciphertext |-> [acc.ciphertext EXCEPT ![i + 1] = StoreUint8(output)],
               trajectory |-> Record(acc.trajectory, i,
                                     [t |-> i, s |-> nextState, i |-> input,
                                      sPrime |-> nextState, o |-> output]),
               visited |-> Append(acc.visited, stateIdx),
               threw |-> FALSE ]

\* one iteration of the data loop of encryptBytes; acc holds the machine, the
\* ciphertext, the trajectory and visited (history: the state in which each
\* byte was processed)
EncryptStep(acc, bytes, i) ==
    LET stateIdx == acc.machine.currentState
        input == bytes[i + 1]
        output == Lookup(acc.machine, acc.machine.lambdaTable, stateIdx, input)
        nextState == NextState(Lookup(acc.machine, acc.machine.delta, stateIdx, input),
                               i, acc.machine.n)
    IN  IF acc.threw THEN acc
        ELSE IF output = TypeError THEN [acc EXCEPT !.threw = TRUE]
        ELSE [ machine |-> [acc.machine EXCEPT !.currentState = nextState],
               ciphertext |-> [acc.ciphertext EXCEPT ![i + 1] = StoreUint8(output)],
               trajectory |-> Record(acc.trajectory, i,
                                     [t |-> i, s |-> stateIdx, i |-> input,
                                      sPrime |-> nextState, o |-> output]),
               visited |-> Append(acc.visited, stateIdx),
               threw |-> FALSE ]

\* encryptBytes(bytes): the returned { ciphertext, trajectory }, the machine as
\* the call leaves it, and whether the call raised an error
encryptBytes(machine, bytes) ==
    LET w == ResetAndWarm(machine)
        Body(acc, i) == EncryptStep(acc, bytes, i)
    IN  For(Body,
            [ machine |-> w.machine, ciphertext |-> NewBuffer(Len(bytes)),
              trajectory |-> << >>, visited |-> << >>, threw |-> w.threw ],
            0, Len(bytes))

\* mutant of DecryptStep: the byte position is not added to the next state
DecryptStepNoPosition(acc, bytes, i) ==
    LET stateIdx == acc.machine.currentState
        recovered == Lookup(acc.machine, acc.machine.lambdaInv, stateIdx, bytes[i + 1])
        nextState == NextState(Lookup(acc.machine, acc.machine.delta, stateIdx, recovered),
                               0, acc.machine.n)
    IN  IF acc.threw THEN acc
        ELSE IF recovered = TypeError THEN [acc EXCEPT !.threw = TRUE]
        ELSE [ machine |-> [acc.machine EXCEPT !.currentState = nextState],
               plaintext |-> [acc.plaintext EXCEPT ![i + 1] = StoreUint8(recovered)],
               trajectory |-> Record(acc.trajectory, i,
                                     [t |-> i, s |-> stateIdx, i |-> recovered,
                                      sPrime |-> nextState, o |-> bytes[i + 1]]),
               visited |-> Append(acc.visited, stateIdx),
               threw |-> FALSE ]

\* one iteration of the data loop of decryptBytes
DecryptStep(acc, bytes, i) ==
    LET stateIdx == acc.machine.currentState
        recovered == Lookup(acc.machine, acc.machine.lambdaInv, stateIdx, bytes[i + 1])
        nextState == NextState(Lookup(acc.machine, acc.machine.delta, stateIdx, recovered),
                               i, acc.machine.n)
    IN  IF acc.threw THEN acc
        ELSE IF recovered = TypeError THEN [acc EXCEPT !.threw = TRUE]
        ELSE [ machine |-> [acc.machine EXCEPT !.currentState = nextState],
               plaintext |-> [acc.plaintext EXCEPT ![i + 1] = StoreUint8(recovered)],
               trajectory |-> Record(acc.trajectory, i,
                                     [t |-> i, s |-> stateIdx, i |-> recovered,
                                      sPrime |-> nextState, o |-> bytes[i + 1]]),
               visited |-> Append(acc.visited, stateIdx),
               threw |-> FALSE ]

\* decryptBytes(bytes): the returned { plaintext, trajectory }, the machine as
\* the call leaves it, and whether the call raised an error
decryptBytes(machine, bytes) ==
    LET w == ResetAndWarm(machine)
        Body(acc, i) == DecryptStep(acc, bytes, i)
    IN  For(Body,
            [ machine |-> w.machine, plaintext |-> NewBuffer(Len(bytes)),
              trajectory |-> << >>, visited |-> << >>, threw |-> w.threw ],
            0, Len(bytes))

---------------------------------------------------------------------------
(* buildMealyMachine *)

\* Math.abs(entropy[cursor]) % k; NaN when cursor is outside the stream
Draw(entropy, cursor, k) ==
    IF 0 <= cursor /\ cursor < Len(entropy) THEN U32Mod(entropy[cursor + 1], k)
    ELSE undefined

\* mutant of DeltaEntry: the modulus is one too large, so an entry can be nStates
DeltaEntryUnreduced(acc, entropy, s, i) ==
    [ machine |-> [acc.machine EXCEPT
                     !.delta[s][i] = StoreInt32(Draw(entropy, acc.cursor, acc.machine.n + 1))],
      cursor |-> acc.cursor + 1 ]

\* machine.delta[s][i] = Math.abs(entropy[cursor]) % nStates; cursor++
DeltaEntry(acc, entropy, s, i) ==
    [ machine |-> [acc.machine EXCEPT
                     !.delta[s][i] = StoreInt32(Draw(entropy, acc.cursor, acc.machine.n))],
      cursor |-> acc.cursor + 1 ]

\* mutant of DeltaFill: the loops are nested the other way round (input-major)
DeltaFillInputMajor(acc, entropy) ==
    LET Col(a, i) ==
            LET Body(b, s) == DeltaEntry(b, entropy, s, i)
            IN  For(Body, a, 0, a.machine.n)
    IN  For(Col, acc, 0, acc.machine.m)

\* the transition fill: for s in [0, n), for i in [0, m): DeltaEntry
DeltaFill(acc, entropy) ==
    LET Row(a, s) ==
            LET Body(b, i) == DeltaEntry(b, entropy, s, i)
            IN  For(Body, a, 0, a.machine.m)
    IN  For(Row, acc, 0, acc.machine.n)

\* mutant of Swap: no temporary, perm[i] = perm[j]; perm[j] = perm[i]
SwapNoTemp(perm, i, j) ==
    IF j = undefined THEN [perm EXCEPT ![i] = StoreUint8(undefined)]
    ELSE [perm EXCEPT ![i] = perm[j]]

\* const temp = perm[i]; perm[i] = perm[j]; perm[j] = temp
\* (perm[NaN] reads undefined and a write to it is dropped)
Swap(perm, i, j) ==
    IF j = undefined THEN [perm EXCEPT ![i] = StoreUint8(undefined)]
    ELSE [perm EXCEPT ![i] = perm[j], ![j] = perm[i]]

\* mutant of ShuffleStep: the draw is reduced mod i, so perm[i] never stays
ShuffleStepModI(acc, entropy, i) ==
    [ perm |-> Swap(acc.perm, i, Draw(entropy, acc.cursor, i)),
      cursor |-> acc.cursor + 1 ]

\* one Fisher-Yates step: j = Math.abs(entropy[cursor]) % (i + 1); swap; cursor++
ShuffleStep(acc, entropy, i) ==
    [ perm |-> Swap(acc.perm, i, Draw(entropy, acc.cursor, i + 1)),
      cursor |-> acc.cursor + 1 ]

\* mutant of IdentityPerm: the array is left zero-filled
IdentityPermZero(mAlphabet) == [i \in 0 .. mAlphabet - 1 |-> StoreUint8(0)]

\* for (i = 0; i < mAlphabet; i++) perm[i] = i   (perm is a Uint8Array)
IdentityPerm(mAlphabet) == [i \in 0 .. mAlphabet - 1 |-> StoreUint8(i)]

\* mutant of Shuffle: the loop runs while i >= 0, one more draw per row
ShuffleToZero(entropy, mAlphabet, cursor) ==
    LET Body(acc, i) == ShuffleStep(acc, entropy, i)
    IN  ForDown(Body, [perm |-> IdentityPerm(mAlphabet), cursor |-> cursor],
                mAlphabet - 1, 0 - 1)

\* for (i = mAlphabet - 1; i > 0; i--) ShuffleStep, from the identity
Shuffle(entropy, mAlphabet, cursor) ==
    LET Body(acc, i) == ShuffleStep(acc, entropy, i)
    IN  ForDown(Body, [perm |-> IdentityPerm(mAlphabet), cursor |-> cursor],
                mAlphabet - 1, 0)

\* mutant of StoreEntry: lambdaInv is filled like lambdaTable, lambdaInv[s][i] = perm[i]
StoreEntryCopied(machine, s, perm, i) ==
    [machine EXCEPT !.lambdaTable[s][i] = perm[i], !.lambdaInv[s][i] = perm[i]]

\* lambdaTable[s][i] = perm[i]; lambdaInv[s][perm[i]] = i
\* (a write outside a typed array is dropped)
StoreEntry(machine, s, perm, i) ==
    LET val == perm[i]
        m1 == [machine EXCEPT !.lambdaTable[s][i] = val]
    IN  IF val < machine.m THEN [m1 EXCEPT !.lambdaInv[s][val] = i] ELSE m1

\* for (i = 0; i < mAlphabet; i++) StoreEntry
StoreRow(machine, s, perm) ==
    LET Body(mach, i) == StoreEntry(mach, s, perm, i)
    IN  For(Body, machine, 0, machine.m)

\* the output-permutation fill: for s in [0, n): shuffle, then store the row
LambdaFill(acc, entropy) ==
    LET Body(a, s) ==
            LET sh == Shuffle(entropy, a.machine.m, a.cursor)
            IN  [machine |-> StoreRow(a.machine, s, sh.perm), cursor |-> sh.cursor]
    IN  For(Body, acc, 0, acc.machine.n)

\* buildMealyMachine(mooreGen, nStates, mAlphabet): the machine returned, the
\* generator as the build leaves it, the stream, the cursor between the two
\* fills and the final cursor
buildMealyMachine(mooreGen, nStates, mAlphabet) ==
    LET totalNeeded == (nStates * mAlphabet) * 2
        g == generateStream(mooreGen, totalNeeded)
        d == DeltaFill([machine |-> MealyMachine(nStates, mAlphabet), cursor |-> 0], g.stream)
        l == LambdaFill(d, g.stream)
    IN  [ machine |-> l.machine, moore |-> g.gen, entropy |-> g.stream,
          deltaCursor |-> d.cursor, cursor |-> l.cursor ]

\* what a build did with its stream
EntropyUse(b) == [ entropy |-> b.entropy, deltaCursor |-> b.deltaCursor, cursor |-> b.cursor ]

\* the three tables and the sizes of a machine
Tables(machine) ==
    [ n |-> machine.n, m |-> machine.m, delta |-> machine.delta,
      lambdaTable |-> machine.lambdaTable, lambdaInv |-> machine.lambdaInv ]

---------------------------------------------------------------------------
(* Security metrics: calculateNPCR, calculateEntropy *)

\* an argument that is null or undefined (no byte is negative)
Missing == << undefined >>

\* !x for an array argument: only null and undefined are falsy, an empty
\* array is not
Falsy(x) == x = Missing

Digits == << "0", "1", "2", "3", "4", "5", "6", "7", "8", "9" >>

\* the decimal digits of a natural number
RECURSIVE IntStr(_)
IntStr(n) == IF n < 10 THEN Digits[n + 1] ELSE IntStr(n \div 10) \o Digits[(n % 10) + 1]

\* the last `digits` decimal digits of n, zero-padded
RECURSIVE FracStr(_, _)
FracStr(n, digits) ==
    IF digits = 0 THEN "" ELSE FracStr(n \div 10, digits - 1) \o Digits[(n % 10) + 1]

\* Number.prototype.toFixed(digits) of the non-negative value num / den:
\* the integer n with n / 10^digits closest to the value, the larger of two
\* equally close ones, printed with `digits` decimals; 0 / 0 is NaN
toFixed(num, den, digits) ==
    IF den = 0 THEN "NaN"
    ELSE LET Body(acc, k) == [ n |-> acc.n * 10 + (acc.r * 10) \div den,
                               r |-> (acc.r * 10) % den ]
             d == For(Body, [n |-> num \div den, r |-> num % den], 0, digits)
             n == IF 2 * d.r >= den THEN d.n + 1 ELSE d.n
         IN  IntStr(n \div (10 ^ digits)) \o "." \o FracStr(n % (10 ^ digits), digits)

\* mutant of DiffCount: the comparison is ===, counting the equal positions
DiffCountEqual(plain, cipher) ==
    Cardinality({ i \in 1 .. Len(plain) : plain[i] = cipher[i] })

\* for (i = 0; i < plain.length; i++) if (plain[i] !== cipher[i]) diff++
DiffCount(plain, cipher) ==
    Cardinality({ i \in 1 .. Len(plain) : plain[i] # cipher[i] })

\* plain.length !== cipher.length
LengthsDiffer(plain, cipher) == Len(plain) # Len(cipher)

\* calculateNPCR(plain, cipher); beyond cipher.length cipher[i] is undefined
calculateNPCR(plain, cipher) ==
    IF Falsy(plain) \/ Falsy(cipher) THEN "0.00"
    ELSE IF LengthsDiffer(plain, cipher) THEN "0.00"
    ELSE toFixed(DiffCount(plain, cipher) * 100, Len(plain), 2)

\* Math.log2(k) for k = 1 .. 8, in units of 1/LogUnit (exact at powers of two)
LogUnit == 10 ^ 8

Log2Table ==
    << 0, LogUnit, 158496250, 2 * LogUnit, 232192809, 258496250, 280735492, 3 * LogUnit >>

\* Math.log2(count / total)
Log2Ratio(count, total) == Log2Table[count] - Log2Table[total]

\* for (let val of data) freq[val] = (freq[val] || 0) + 1
Frequencies(data) ==
    [ val \in { data[i] : i \in 1 .. Len(data) } |->
        Cardinality({ i \in 1 .. Len(data) : data[i] = val }) ]

\* mutant of EntropyTerm: the probability factor is dropped, entropy -= Math.log2(p)
EntropyTermUnweighted(entropy, count, total) == entropy - Log2Ratio(count, total)

\* const p = count / total; entropy -= p * Math.log2(p)
EntropyTerm(entropy, count, total) == entropy - (count * Log2Ratio(count, total)) \div total

\* calculateEntropy(data); Object.values(freq) lists integer keys in ascending order
calculateEntropy(data) ==
    IF Falsy(data) \/ Len(data) = 0 THEN "0.0000"
    ELSE LET freq == Frequencies(data)
             Values(k) == { v \in DOMAIN freq : Cardinality({ u \in DOMAIN freq : u < v }) = k }
             Body(entropy, k) == EntropyTerm(entropy, freq[CHOOSE v \in Values(k) : TRUE], Len(data))
         IN  toFixed(For(Body, 0, 0, Cardinality(DOMAIN freq)), LogUnit, 4)

---------------------------------------------------------------------------
(* The App: the key, the memoised machine, and the calls made on it *)

\* useState('Butterfly_Effect_2026')
DefaultKey ==
    << 66, 117, 116, 116, 101, 114, 102, 108, 121, 95, 69, 102, 102, 101, 99, 116,
       95, 50, 48, 50, 54 >>

\* the keys a user types: the default and the empty key
Keys == { DefaultKey, << >> }

Alphabet == 0 .. MAlphabet - 1

\* the empty buffer and every single byte
ShortInputs == { << >> } \cup { << b >> : b \in Alphabet }

\* inputs longer than the trajectory cap: the ramp a, a+1, ... (mod m) from each a
LongInputs ==
    { [k \in 1 .. TrajectoryCap + LongExtra |-> (a + k - 1) % MAlphabet] : a \in Alphabet }

\* the byte sequences handed to encryptBytes
Inputs == ShortInputs \cup LongInputs

\* the byte sequences handed to decryptBytes: arbitrary short ones, and the
\* ciphertext of the latest encryptBytes call (under whatever key it was made)
DecryptInputs == ShortInputs \cup { lastEnc.out }

NoCall ==
    [ called |-> FALSE, key |-> << >>, bytes |-> << >>, out |-> << >>,
      trajectory |-> << >>, visited |-> << >>, endState |-> 0, threw |-> FALSE ]

\* mutant of Rebuild: the generator of the previous build is kept and drawn
\* from again instead of being constructed from the key
RebuildSameGenerator(key) == buildMealyMachine(moore, NStates, MAlphabet)

\* mutant of Rebuild: the memo callback sees the key of the previous render
RebuildStaleKey(key) ==
    buildMealyMachine(LogisticMoore(sharedKey, StabilizationSteps), NStates, MAlphabet)

\* useMemo(() => buildMealyMachine(new LogisticMoore(sharedKey), 1024, 256), [sharedKey])
Rebuild(key) == buildMealyMachine(LogisticMoore(key, StabilizationSteps), NStates, MAlphabet)

\* no function call made, no generator constructed besides the App's own
Idle == [ fn |-> "none" ]

NoGenerators == << >>

\* the first render: useState('Butterfly_Effect_2026') and the memo's first run
AppInit ==
    \E b \in { buildMealyMachine(LogisticMoore(DefaultKey, StabilizationSteps),
                                  NStates, MAlphabet) } :
        /\ sharedKey = DefaultKey
        /\ moore = b.moore
        /\ mealyMachine = b.machine
        /\ builtTables = Tables(b.machine)
        /\ firstBuild = [k \in { DefaultKey } |-> Tables(b.machine)]
        /\ entropyUse = EntropyUse(b)
        /\ lastEnc = NoCall
        /\ lastDec = NoCall

Init ==
    /\ fnCall = Idle
    /\ generators = NoGenerators
    /\ AppInit

\* setSharedKey(key) with a new key: the memo is recomputed
SetSharedKey(key) ==
    /\ key # sharedKey
    /\ \E b \in { Rebuild(key) } :
           /\ sharedKey' = key
           /\ moore' = b.moore
           /\ mealyMachine' = b.machine
           /\ builtTables' = Tables(b.machine)
           /\ entropyUse' = EntropyUse(b)
           /\ firstBuild' = IF key \in DOMAIN firstBuild THEN firstBuild
                            ELSE [k \in DOMAIN firstBuild \cup { key } |->
                                    IF k = key THEN Tables(b.machine) ELSE firstBuild[k]]
    /\ lastDec' = NoCall
    /\ UNCHANGED <<lastEnc, fnCall, generators>>

\* mealyMachine.encryptBytes(bytes)
EncryptBytes(bytes) ==
    /\ \E r \in { encryptBytes(mealyMachine, bytes) } :
           /\ mealyMachine' = r.machine
           /\ lastEnc' = [ called |-> TRUE, key |-> sharedKey, bytes |-> bytes,
                           out |-> r.ciphertext, trajectory |-> r.trajectory,
                           visited |-> r.visited,
                           endState |-> r.machine.currentState, threw |-> r.threw ]
    /\ lastDec' = NoCall
    /\ UNCHANGED <<sharedKey, moore, builtTables, firstBuild, entropyUse, fnCall, generators>>

\* mealyMachine.decryptBytes(bytes)
DecryptBytes(bytes) ==
    /\ \E r \in { decryptBytes(mealyMachine, bytes) } :
           /\ mealyMachine' = r.machine
           /\ lastDec' = [ called |-> TRUE, key |-> sharedKey, bytes |-> bytes,
                           out |-> r.plaintext, trajectory |-> r.trajectory,
                           visited |-> r.visited,
                           endState |-> r.machine.currentState, threw |-> r.threw ]
    /\ UNCHANGED <<sharedKey, moore, builtTables, firstBuild, entropyUse, lastEnc,
                   fnCall, generators>>

Next ==
    \/ \E key \in Keys : SetSharedKey(key)
    \/ \E bytes \in Inputs : EncryptBytes(bytes)
    \/ \E bytes \in DecryptInputs : DecryptBytes(bytes)

Spec == Init /\ [][Next]_vars

---------------------------------------------------------------------------
(* The module-level functions called on their own: an argument list is drawn,
   then the function is applied to it *)

\* all sequences over S of length at most n
RECURSIVE SeqsUpTo(_, _)
SeqsUpTo(S, n) ==
    IF n = 0 THEN { << >> }
    ELSE LET shorter == SeqsUpTo(S, n - 1)
         IN  shorter \cup { Append(q, x) : q \in { r \in shorter : Len(r) = n - 1 }, x \in S }

\* arguments of calculateNPCR: null, the arrays over two byte values up to
\* NpcrLen, and the arrays 1,2,3 and 9,9,9
NpcrLen == 3

NpcrArgs == { Missing, << 1, 2, 3 >>, << 9, 9, 9 >> } \cup SeqsUpTo({ 0, 1 }, NpcrLen)

\* arguments of calculateEntropy: null and the arrays over four byte values
\* up to EntropyLen
EntropyLen == 4

EntropyArgs == { Missing } \cup SeqsUpTo(0 .. 3, EntropyLen)

\* arguments of _initializeSeed: keys over three UTF-16 code units up to
\* KeyLen characters, the default key, "test", "GydZG_" (hash -2^31),
\* "f5a5a608" (hash 0) and a key of hash 799999
KeyLen == 5

SeedKeys ==
    { DefaultKey, << 116, 101, 115, 116 >>, << 71, 121, 100, 90, 71, 95 >>,
      << 102, 53, 97, 53, 97, 54, 48, 56 >>, << 25806, 13 >> }
        \cup SeqsUpTo({ 0, 97, 65535 }, KeyLen)

\* the states a generator constructed from key is in, from the seed through
\* the burn-in and the 2*n*m values a build draws
Orbit(key) ==
    LET Body(orbit, i) == Append(orbit, _transition(orbit[i + 1]))
    IN  For(Body, << _initializeSeed(key) >>, 0,
            StabilizationSteps + 2 * NStates * MAlphabet)

\* values of this.state when _transition is called: every seed, and the
\* orbits of three keys
TransitionArgs ==
    { _initializeSeed(key) : key \in SeedKeys }
        \cup UNION { { orbit[i] : i \in 1 .. Len(orbit) } :
                       orbit \in { Orbit(key) :
                                     key \in { DefaultKey, << >>, << 116, 101, 115, 116 >> } } }

Pending(fn, args) == [ fn |-> fn, args |-> args, done |-> FALSE ]

FnInit ==
    /\ generators = NoGenerators
    /\ AppInit
    /\ fnCall \in { Pending("calculateNPCR", << plain, cipher >>) :
                        plain \in NpcrArgs, cipher \in NpcrArgs }
                  \cup { Pending("calculateEntropy", << data >>) : data \in EntropyArgs }
                  \cup { Pending("_initializeSeed", << key >>) : key \in SeedKeys }
                  \cup { Pending("_transition", << state >>) : state \in TransitionArgs }

\* calculateNPCR(plain, cipher)
CalculateNPCR ==
    /\ fnCall.fn = "calculateNPCR" /\ ~fnCall.done
    /\ fnCall' = [ fn |-> fnCall.fn, args |-> fnCall.args, done |-> TRUE,
                   out |-> calculateNPCR(fnCall.args[1], fnCall.args[2]) ]
    /\ UNCHANGED <<appVars, generators>>

\* calculateEntropy(data)
CalculateEntropy ==
    /\ fnCall.fn = "calculateEntropy" /\ ~fnCall.done
    /\ fnCall' = [ fn |-> fnCall.fn, args |-> fnCall.args, done |-> TRUE,
                   out |-> calculateEntropy(fnCall.args[1]) ]
    /\ UNCHANGED <<appVars, generators>>

\* _initializeSeed(key): the seed returned and the values hash took
InitializeSeed ==
    /\ fnCall.fn = "_initializeSeed" /\ ~fnCall.done
    /\ fnCall' = [ fn |-> fnCall.fn, args |-> fnCall.args, done |-> TRUE,
                   out |-> _initializeSeed(fnCall.args[1]),
                   hashes |-> HashTrace(fnCall.args[1]) ]
    /\ UNCHANGED <<appVars, generators>>

\* _transition() on a generator whose state is fnCall.args[1]
Transition ==
    /\ fnCall.fn = "_transition" /\ ~fnCall.done
    /\ fnCall' = [ fn |-> fnCall.fn, args |-> fnCall.args, done |-> TRUE,
                   out |-> _transition(fnCall.args[1]) ]
    /\ UNCHANGED <<appVars, generators>>

FnNext ==
    \/ CalculateNPCR
    \/ CalculateEntropy
    \/ InitializeSeed
    \/ Transition

FnSpec == FnInit /\ [][FnNext]_vars

---------------------------------------------------------------------------
(* LogisticMoore instances constructed and used side by side *)

\* the longest stream asked for
StreamLen == 2

\* the keys the instances are constructed from
GeneratorKeys == Keys \cup { << 116, 101, 115, 116 >> }

\* new LogisticMoore(key), while fewer than two instances exist
NewLogisticMoore(key) ==
    /\ Len(generators) < 2
    /\ generators' = Append(generators,
                            [ key |-> key, gen |-> LogisticMoore(key, StabilizationSteps),
                              returned |-> << >> ])
    /\ UNCHANGED <<appVars, fnCall>>

\* generators[k].generateStream(count), at most twice per instance
GenerateStream(k, count) ==
    /\ k \in 1 .. Len(generators)
    /\ Len(generators[k].returned) < 2
    /\ \E r \in { generateStream(generators[k].gen, count) } :
           generators' = [generators EXCEPT ![k].gen = r.gen,
                                            ![k].returned = Append(@, r.stream)]
    /\ UNCHANGED <<appVars, fnCall>>

GeneratorNext ==
    \/ \E key \in GeneratorKeys : NewLogisticMoore(key)
    \/ \E k \in 1 .. 2, count \in 0 .. StreamLen : GenerateStream(k, count)

GeneratorSpec == Init /\ [][GeneratorNext]_vars

---------------------------------------------------------------------------
(* Properties *)

\* the latest decryptBytes call was given the ciphertext of the latest
\* encryptBytes call, on an automaton built from the same key
DecryptedLastCiphertext ==
    /\ lastEnc.called /\ lastDec.called
    /\ lastDec.key = lastEnc.key
    /\ lastDec.bytes = lastEnc.out

\* the automaton as buildMealyMachine returned it for the current key
AsBuilt ==
    [ n |-> builtTables.n, m |-> builtTables.m, currentState |-> 0,
      delta |-> builtTables.delta, lambdaTable |-> builtTables.lambdaTable,
      lambdaInv |-> builtTables.lambdaInv ]

\* f is a bijection of 0 .. m-1
IsPermutation(f, m) ==
    /\ DOMAIN f = 0 .. m - 1
    /\ \A x \in 0 .. m - 1 : f[x] \in 0 .. m - 1
    /\ \A x \in 0 .. m - 1 : \A y \in 0 .. m - 1 : f[x] = f[y] => x = y

\* C1 (round trip): decryptBytes applied to the ciphertext that encryptBytes
\* returned for P, on the automaton built from the same key, returns P.
C1_RoundTrip ==
    DecryptedLastCiphertext => (~lastDec.threw /\ lastDec.out = lastEnc.bytes)

\* C1 happens: a long plaintext that the cipher changed was decrypted back
C1_Witness ==
    /\ DecryptedLastCiphertext
    /\ Len(lastEnc.bytes) > TrajectoryCap
    /\ lastEnc.out # lastEnc.bytes
    /\ lastDec.out = lastEnc.bytes

\* C2 (permutation invariant): in every reachable state, after the build and
\* after any calls, each lambdaTable[s] is a bijection of [0, m) and
\* lambdaInv[s][lambdaTable[s][x]] = x.
C2_PermutationInvariant ==
    \A s \in 0 .. mealyMachine.n - 1 :
        /\ IsPermutation(mealyMachine.lambdaTable[s], mealyMachine.m)
        /\ \A x \in 0 .. mealyMachine.m - 1 :
               mealyMachine.lambdaInv[s][mealyMachine.lambdaTable[s][x]] = x

\* C2 happens: calls were made on a machine one of whose rows is not the identity
C2_Witness ==
    /\ lastEnc.called /\ lastDec.called /\ lastEnc.key = sharedKey
    /\ \E s \in 0 .. mealyMachine.n - 1 : \E x \in 0 .. mealyMachine.m - 1 :
           mealyMachine.lambdaTable[s][x] # x
    /\ C2_PermutationInvariant

\* C3 (length preservation): the ciphertext of encryptBytes(P) has Len(P) bytes
\* and the plaintext of decryptBytes(C) has Len(C) bytes.
C3_LengthPreserved ==
    /\ lastEnc.called => Len(lastEnc.out) = Len(lastEnc.bytes)
    /\ lastDec.called => Len(lastDec.out) = Len(lastDec.bytes)

\* C3 happens: both calls were made on an input longer than the trajectory cap
C3_Witness ==
    /\ lastEnc.called /\ Len(lastEnc.out) = TrajectoryCap + LongExtra
    /\ lastDec.called /\ Len(lastDec.out) = TrajectoryCap + LongExtra

\* C4 (call independence): whatever calls were made before, a call returns what
\* the same call returns on the automaton as it was built (currentState 0).
C4_CallIndependence ==
    /\ (lastEnc.called /\ lastEnc.key = sharedKey) =>
           \E r \in { encryptBytes(AsBuilt, lastEnc.bytes) } :
               /\ r.ciphertext = lastEnc.out
               /\ r.trajectory = lastEnc.trajectory
               /\ r.threw = lastEnc.threw
    /\ lastDec.called =>
           \E r \in { decryptBytes(AsBuilt, lastDec.bytes) } :
               /\ r.plaintext = lastDec.out
               /\ r.trajectory = lastDec.trajectory
               /\ r.threw = lastDec.threw

\* C4 happens: a decrypt call was made on a machine that an earlier encrypt call
\* had left in another state than the one its own data loop started from
C4_Witness ==
    /\ lastEnc.called /\ lastDec.called /\ lastEnc.key = sharedKey
    /\ Len(lastEnc.bytes) > 0 /\ Len(lastDec.bytes) > 0
    /\ lastEnc.bytes # lastDec.out
    /\ lastEnc.visited[Len(lastEnc.visited)] # lastDec.visited[1]

Min(a, b) == IF a < b THEN a ELSE b

\* the trajectory of a call on an input of length len
TrajectoryShape(trajectory, len) ==
    /\ Len(trajectory) = Min(len, TrajectoryCap)
    /\ \A k \in 1 .. Len(trajectory) : trajectory[k].t = k - 1

\* C6 (trajectory bound): the trajectory of a call on an input of length L has
\* exactly min(L, 20) entries, the k-th with t = k; no step >= 20 is recorded.
C6_TrajectoryBound ==
    /\ lastEnc.called => TrajectoryShape(lastEnc.trajectory, Len(lastEnc.bytes))
    /\ lastDec.called => TrajectoryShape(lastDec.trajectory, Len(lastDec.bytes))

\* C6 happens: both calls processed more than 20 bytes and recorded 20 steps
C6_Witness ==
    /\ lastEnc.called /\ Len(lastEnc.bytes) > TrajectoryCap
    /\ Len(lastEnc.trajectory) = TrajectoryCap
    /\ lastDec.called /\ Len(lastDec.bytes) > TrajectoryCap
    /\ Len(lastDec.trajectory) = TrajectoryCap

\* C7 (matching trajectories): decrypting the ciphertext of P visits the same
\* state at every byte index as the encrypt pass and records the same
\* trajectory (t, s, i, sPrime, and o the ciphertext byte).
C7_MatchingTrajectories ==
    DecryptedLastCiphertext =>
        /\ lastDec.visited = lastEnc.visited
        /\ lastDec.trajectory = lastEnc.trajectory
        /\ \A k \in 1 .. Len(lastDec.trajectory) : lastDec.trajectory[k].o = lastEnc.out[k]

\* C7 happens: the two passes went through more than one state over a long input
C7_Witness ==
    /\ DecryptedLastCiphertext
    /\ Len(lastEnc.bytes) > TrajectoryCap
    /\ Len(lastDec.visited) = Len(lastEnc.bytes)
    /\ \E k \in 1 .. Len(lastDec.visited) : lastDec.visited[k] # lastDec.visited[1]
    /\ lastDec.trajectory = lastEnc.trajectory

\* C8 (tables read-only): after any sequence of calls, n, m, delta, lambdaTable
\* and lambdaInv equal what buildMealyMachine returned.
C8_TablesReadOnly == Tables(mealyMachine) = builtTables

\* C8 happens: both kinds of call were made on the current machine, whose delta
\* is not the zero table the constructor allocates
C8_Witness ==
    /\ lastEnc.called /\ lastEnc.key = sharedKey /\ lastDec.called
    /\ Len(lastEnc.bytes) > 0 /\ Len(lastDec.bytes) > 0
    /\ mealyMachine.delta # MealyMachine(NStates, MAlphabet).delta
    /\ Tables(mealyMachine) = builtTables

\* C9 as stated (no side effects): a call leaves every field of the automaton,
\* currentState included, as it was.
C9_NoFieldChanges == [][sharedKey' = sharedKey => mealyMachine' = mealyMachine]_vars

\* C9 amended: a call changes no field of the automaton other than
\* currentState (which it overwrites), and nothing else of the App's state.
C9_OnlyCurrentStateChanges ==
    [][sharedKey' = sharedKey =>
          /\ [mealyMachine' EXCEPT !.currentState = mealyMachine.currentState] = mealyMachine
          /\ moore' = moore]_vars

\* C9 happens: a call has returned and left currentState away from the 0 the
\* build left it at
C9_Witness ==
    /\ lastEnc.called /\ lastEnc.key = sharedKey /\ ~lastDec.called
    /\ mealyMachine.currentState # 0
    /\ Tables(mealyMachine) = builtTables

\* C10 (wrong key is not an error): decryptBytes(C) never raises and returns
\* Len(C) bytes, each in [0, 256), also when C was encrypted under another key
\* and also under the empty key.
C10_WrongKeyIsNoError ==
    lastDec.called =>
        /\ ~lastDec.threw
        /\ Len(lastDec.out) = Len(lastDec.bytes)
        /\ \A k \in 1 .. Len(lastDec.out) : lastDec.out[k] \in 0 .. ByteMod - 1

\* C10 happens: a ciphertext made under the default key was decrypted under
\* the empty key, to something else than the plaintext
C10_Witness ==
    /\ lastEnc.called /\ lastEnc.key = DefaultKey
    /\ lastDec.called /\ lastDec.key = << >>
    /\ lastDec.bytes = lastEnc.out
    /\ Len(lastDec.bytes) > TrajectoryCap
    /\ ~lastDec.threw
    /\ lastDec.out # lastEnc.bytes

---------------------------------------------------------------------------
(* Properties of the module-level functions, under FnSpec *)

NpcrDone == fnCall.fn = "calculateNPCR" /\ fnCall.done

EntropyDone == fnCall.fn = "calculateEntropy" /\ fnCall.done

SeedDone == fnCall.fn = "_initializeSeed" /\ fnCall.done

\* C11: calculateNPCR(a, b) returns "0.00" whenever the two arrays have
\* different lengths or either of them is empty, both empty included.
C11_SentinelOnMismatchOrEmpty ==
    NpcrDone =>
        LET a == fnCall.args[1]
            b == fnCall.args[2]
        IN  (a # Missing /\ b # Missing /\ (Len(a) # Len(b) \/ Len(a) = 0 \/ Len(b) = 0))
                => fnCall.out = "0.00"

\* C12: for non-empty arrays a, b of equal length L, calculateNPCR(a, b) is
\* 100 * (number of positions where they differ) / L rounded to two decimals:
\* "0.00" when a = b, "100.00" when they differ everywhere, and the same for
\* (b, a).
C12_NpcrValue ==
    NpcrDone =>
        LET a == fnCall.args[1]
            b == fnCall.args[2]
            L == Len(a)
            d == Cardinality({ k \in 1 .. L : a[k] # b[k] })
            q == (10000 * d) \div L
            Dist(n) == IF n * L >= 10000 * d THEN n * L - 10000 * d ELSE 10000 * d - n * L
        IN  (a # Missing /\ b # Missing /\ Len(b) = L /\ L > 0) =>
                /\ \E n \in { q, q + 1 } :
                       /\ 2 * Dist(n) <= L
                       /\ fnCall.out = IntStr(n \div 100) \o "." \o FracStr(n % 100, 2)
                /\ a = b => fnCall.out = "0.00"
                /\ d = L => fnCall.out = "100.00"
                /\ fnCall.out = calculateNPCR(b, a)

\* two of three positions differ: 66.67
C12_Witness ==
    /\ NpcrDone
    /\ fnCall.args = << << 0, 0, 1 >>, << 0, 1, 0 >> >>
    /\ fnCall.out = "66.67"

\* how often each count occurs among the values of data, as a decimal code:
\* digit c (from the right) is the number of values occurring c times
Profile(data) ==
    LET vals == { data[i] : i \in 1 .. Len(data) }
        Count(v) == Cardinality({ i \in 1 .. Len(data) : data[i] = v })
    IN  Cardinality({ v \in vals : Count(v) = 1 }) +
        10 * Cardinality({ v \in vals : Count(v) = 2 }) +
        100 * Cardinality({ v \in vals : Count(v) = 3 }) +
        1000 * Cardinality({ v \in vals : Count(v) = 4 }) +
        10000 * Cardinality({ v \in vals : Count(v) >= 5 })

\* -sum p*log2(p) to four decimals for the frequency profiles of up to five
\* values in all, among at most four distinct ones
ReferenceEntropy ==
    { << 1, "0.0000" >>, << 10, "0.0000" >>, << 100, "0.0000" >>, << 1000, "0.0000" >>,
      << 10000, "0.0000" >>,
      << 2, "1.0000" >>, << 20, "1.0000" >>, << 3, "1.5850" >>, << 4, "2.0000" >>,
      << 11, "0.9183" >>, << 12, "1.5000" >>, << 101, "0.8113" >>, << 13, "1.9219" >>,
      << 102, "1.3710" >>, << 21, "1.5219" >>, << 1001, "0.7219" >>, << 110, "0.9710" >> }

\* C13: calculateEntropy returns "0.0000" for an empty input and for an input
\* whose values are all equal, "1.0000" when exactly two distinct values occur
\* equally often, and in general -sum p*log2(p) over the observed frequencies
\* with four decimals.
C13_ShannonEntropy ==
    (EntropyDone /\ fnCall.args[1] # Missing) =>
        LET data == fnCall.args[1]
            vals == { data[i] : i \in 1 .. Len(data) }
            Count(v) == Cardinality({ i \in 1 .. Len(data) : data[i] = v })
        IN  /\ Len(data) = 0 => fnCall.out = "0.0000"
            /\ (Len(data) > 0 /\ Cardinality(vals) = 1) => fnCall.out = "0.0000"
            /\ (Cardinality(vals) = 2 /\ \A u, v \in vals : Count(u) = Count(v))
                   => fnCall.out = "1.0000"
            /\ Len(data) > 0 => << Profile(data), fnCall.out >> \in ReferenceEntropy

\* two distinct values, twice each
C13_Witness ==
    /\ EntropyDone
    /\ fnCall.args[1] = << 0, 3, 3, 0 >>
    /\ fnCall.out = "1.0000"

\* C14 as stated: for every key the seed is strictly between 0.1 and 0.9.
C14_SeedInOpenInterval ==
    SeedDone => (fnCall.out > One \div 10 /\ fnCall.out < 9 * (One \div 10))

\* C14 amended: for every key the seed is at least 0.1 and strictly below 0.9;
\* it is exactly 0.1 when |hash| is a multiple of 800000, as for the empty key.
C14_SeedInHalfOpenInterval ==
    SeedDone =>
        /\ fnCall.out >= One \div 10
        /\ fnCall.out < 9 * (One \div 10)
        /\ fnCall.args[1] = << >> => fnCall.out = One \div 10

\* the key "GydZG_", whose hash is -2^31
C14_Witness ==
    /\ SeedDone
    /\ Len(fnCall.hashes) = 6
    /\ fnCall.hashes[6] = (0 - 2147483647) - 1
    /\ fnCall.out = 383648

---------------------------------------------------------------------------
(* Properties of the cipher, under Spec, continued *)

\* the trajectory entries of the latest encryptBytes call
EncEntries == { lastEnc.trajectory[k] : k \in 1 .. Len(lastEnc.trajectory) }

\* two entries with the same state and input byte at different positions
SamePairElsewhere(e1, e2) == e1.s = e2.s /\ e1.i = e2.i /\ e1.t # e2.t

\* C15 as stated: in encryptBytes the next state is (delta[s][x] + i) mod n,
\* and the same (state, byte) pair at two different positions always yields
\* two different next states.
C15_PositionsAlwaysDiffer ==
    lastEnc.called =>
        \A e1, e2 \in EncEntries : SamePairElsewhere(e1, e2) => e1.sPrime # e2.sPrime

\* C15 amended: the next state is (delta[s][x] + i) mod n, so the same
\* (state, byte) pair at positions i and i' yields different next states
\* exactly when i and i' are not congruent modulo n.
C15_PositionsDifferModN ==
    lastEnc.called =>
        LET delta == firstBuild[lastEnc.key].delta
        IN  /\ \A e \in EncEntries : e.sPrime = (delta[e.s][e.i] + e.t) % NStates
            /\ \A e1, e2 \in EncEntries :
                   SamePairElsewhere(e1, e2) =>
                       (e1.sPrime # e2.sPrime <=> (e1.t % NStates) # (e2.t % NStates))

\* one call showing both: a repeated pair with different next states, and a
\* repeated pair a multiple of n positions apart with the same next state
C15_Witness ==
    /\ lastEnc.called
    /\ \E e1, e2 \in EncEntries : SamePairElsewhere(e1, e2) /\ e1.sPrime # e2.sPrime
    /\ \E e1, e2 \in EncEntries : SamePairElsewhere(e1, e2) /\ e1.sPrime = e2.sPrime

\* C16 as stated: the build requests exactly 2*n*m values and consumes all of
\* them in order, n*m for the transition fill and the remaining n*m for the
\* permutations; at the end the cursor is 2*n*m and no value is left unused.
C16_AllEntropyConsumed ==
    /\ Len(entropyUse.entropy) = 2 * NStates * MAlphabet
    /\ entropyUse.deltaCursor = NStates * MAlphabet
    /\ entropyUse.cursor = 2 * NStates * MAlphabet

\* C16 amended: the build requests exactly 2*n*m values and reads them in
\* order from the first, n*m for the transition fill and then n*(m-1) for the
\* permutations (m-1 draws per state); at the end the cursor is 2*n*m - n and
\* the last n values of the stream are never read.
C16_EntropyConsumedButLastN ==
    /\ Len(entropyUse.entropy) = 2 * NStates * MAlphabet
    /\ entropyUse.deltaCursor = NStates * MAlphabet
    /\ entropyUse.cursor = NStates * MAlphabet + NStates * (MAlphabet - 1)
    /\ entropyUse.cursor = Len(entropyUse.entropy) - NStates
    /\ \A st \in 0 .. NStates - 1, i \in 0 .. MAlphabet - 1 :
           builtTables.delta[st][i] =
               U32Mod(entropyUse.entropy[st * MAlphabet + i + 1], NStates)

\* a rebuild for the empty key has run
C16_Witness ==
    /\ sharedKey = << >>
    /\ builtTables = firstBuild[<< >>]
    /\ entropyUse.cursor = 2 * NStates * MAlphabet - NStates

\* a generator and an automaton made from nothing but the key
FreshBuild(key) ==
    buildMealyMachine(LogisticMoore(key, StabilizationSteps), NStates, MAlphabet)

WarmedState(delta) ==
    LET Body(st, j) == delta[st][j % MAlphabet]
    IN  For(Body, 0, 0, 500)

\* C19: every encryptBytes and decryptBytes call first sets currentState to 0
\* and updates it exactly 500 times by delta[currentState][j mod 256], without
\* a position offset; the state in which the first data byte is processed
\* depends only on delta, is the same for both calls and for all inputs.
C19_WarmUp ==
    /\ (lastEnc.called /\ lastEnc.bytes # << >>)
           => lastEnc.visited[1] = WarmedState(firstBuild[lastEnc.key].delta)
    /\ (lastDec.called /\ lastDec.bytes # << >>)
           => lastDec.visited[1] = WarmedState(builtTables.delta)
    /\ (lastDec.called /\ lastDec.bytes = << >>)
           => mealyMachine.currentState = WarmedState(builtTables.delta)

\* an encryption and a decryption of unrelated, different inputs under one
\* key start their data loops in the same state, which is not 0
C19_Witness ==
    /\ lastEnc.called /\ lastDec.called
    /\ lastEnc.key = sharedKey
    /\ Len(lastEnc.bytes) > 1 /\ Len(lastDec.bytes) = 1
    /\ lastDec.bytes[1] # lastEnc.bytes[1]
    /\ lastDec.bytes[1] # lastEnc.out[1]
    /\ lastEnc.visited[1] = lastDec.visited[1]
    /\ lastEnc.visited[1] # 0

---------------------------------------------------------------------------
(* Properties of the generator, under GeneratorSpec *)

---------------------------------------------------------------------------
(* Properties of the key hash, under FnSpec *)

\* the value hash had before character k of the key was combined
HashBefore(k) == IF k = 1 THEN 0 ELSE fnCall.hashes[k - 1]

\* hash * 31 + charCode as a carry out of the low 16 bits and the high part,
\* neither reduced
Times31Plus(hash, charCode) ==
    LET low == 31 * (hash % 65536) + charCode
    IN  [ hi |-> 31 * (hash \div 65536) + low \div 65536, lo |-> low % 65536 ]

\* C20: after every character, the hash of _initializeSeed equals
\* hash*31 + charCode reduced to a two's-complement signed 32-bit integer, and
\* it stays in [-2^31, 2^31 - 1].
C20_HashWrapsTo32Bits ==
    SeedDone =>
        /\ Len(fnCall.hashes) = Len(fnCall.args[1])
        /\ \A k \in 1 .. Len(fnCall.hashes) :
               LET exact == Times31Plus(HashBefore(k), fnCall.args[1][k])
                   hash == fnCall.hashes[k]
               IN  /\ (0 - 2147483647) - 1 <= hash /\ hash <= 2147483647
                   /\ hash % 65536 = exact.lo
                   /\ (hash \div 65536) % 65536 = exact.hi % 65536
                   /\ (0 - 32768 <= exact.hi /\ exact.hi <= 32767)
                          => hash \div 65536 = exact.hi

\* a key during whose hashing hash*31 + charCode left the 32-bit range, once
\* above and once below
C20_Witness ==
    /\ SeedDone
    /\ \E k \in 1 .. Len(fnCall.hashes) :
           Times31Plus(HashBefore(k), fnCall.args[1][k]).hi > 32767
    /\ \E k \in 1 .. Len(fnCall.hashes) :
           Times31Plus(HashBefore(k), fnCall.args[1][k]).hi < 0 - 32768

---------------------------------------------------------------------------
(* Properties of the generator's transition, under FnSpec *)

TransitionDone == fnCall.fn = "_transition" /\ fnCall.done

\* r * state * (1 - state) from the three leading decimals of state, in units
\* of 1/One; within CoarseError of the exact product
CoarseProduct(state) ==
    (((39999 * (state \div 1000)) \div 100) * (1000 - state \div 1000)) \div 100

CoarseError == 5 * 1000

Near(x, y) == x - y <= CoarseError /\ y - x <= CoarseError

\* C21: after construction and after every _transition call, during burn-in
\* and during output production, the generator state is strictly between 0 and
\* 1; it is 0.5 when r*state*(1-state) is <= 0 or >= 1 and r*state*(1-state)
\* otherwise.
C21_StateStrictlyInside ==
    TransitionDone =>
        /\ 0 < fnCall.args[1] /\ fnCall.args[1] < One
        /\ 0 < fnCall.out /\ fnCall.out < One
        /\ fnCall.out = One \div 2 \/ Near(fnCall.out, CoarseProduct(fnCall.args[1]))
        /\ (CoarseError < CoarseProduct(fnCall.args[1])
              /\ CoarseProduct(fnCall.args[1]) < One - CoarseError)
               => Near(fnCall.out, CoarseProduct(fnCall.args[1]))

\* a call from a state above 0.9999, whose successor is below 0.001
C21_Witness ==
    /\ TransitionDone
    /\ fnCall.args[1] > 999900
    /\ fnCall.out < 1000


\* the stream value read for delta[s][i] when the fill is state-major
FillValue(s, i) == entropyUse.entropy[s * MAlphabet + i + 1]

\* value mod n of an unsigned 32-bit value given by its limbs
ModN(u) == ((u.hi % NStates) * 65536 + u.lo) % NStates

\* C22: after a build, for every state s and input i, delta[s][i] is the
\* stream value number s*m + i reduced mod n; every entry lies in [0, n) and
\* the first n*m stream values are the ones consumed, state-major.
C22_TransitionFill ==
    /\ DOMAIN builtTables.delta = 0 .. NStates - 1
    /\ \A s \in 0 .. NStates - 1 :
          /\ DOMAIN builtTables.delta[s] = 0 .. MAlphabet - 1
          /\ \A i \in 0 .. MAlphabet - 1 :
                /\ builtTables.delta[s][i] = ModN(FillValue(s, i))
                /\ builtTables.delta[s][i] \in 0 .. NStates - 1
    /\ entropyUse.deltaCursor = NStates * MAlphabet

\* a rebuild for another key has filled a table that is not constant and
\* differs from its own transpose order
C22_Witness ==
    /\ sharedKey # DefaultKey
    /\ \E s \in 0 .. NStates - 1, i \in 0 .. MAlphabet - 1 :
          /\ builtTables.delta[s][i] # 0
          /\ s * MAlphabet + i # i * NStates + s
          /\ builtTables.delta[s][i] # ModN(entropyUse.entropy[i * NStates + s + 1])

\* the cursor at which the shuffle of state s draws for index i
RowCursor(s, i) == NStates * MAlphabet + s * (MAlphabet - 1) + (MAlphabet - 1 - i)

\* that draw: the stream value at the cursor reduced mod i + 1
RowDraw(s, i) ==
    LET u == entropyUse.entropy[RowCursor(s, i) + 1]
    IN  ((u.hi % (i + 1)) * 65536 + u.lo) % (i + 1)

\* the row of state s after the swaps for indices m - 1 down to i, from the identity
RECURSIVE Shuffled(_, _)
Shuffled(s, i) ==
    IF i >= MAlphabet THEN [k \in 0 .. MAlphabet - 1 |-> k]
    ELSE LET p == Shuffled(s, i + 1)
             j == RowDraw(s, i)
         IN  [k \in 0 .. MAlphabet - 1 |->
                 IF k = i THEN p[j] ELSE IF k = j THEN p[i] ELSE p[k]]

\* C23: for each state the output row is the identity after the swaps of
\* perm[i] and perm[j] for i from m-1 down to 1, j being the stream value at
\* the cursor mod i+1 (0 <= j <= i); m-1 values are drawn per state, and all
\* cursors used lie in [n*m, 2*n*m), inside the stream.
C23_FisherYatesFill ==
    /\ \A s \in 0 .. NStates - 1 :
          /\ builtTables.lambdaTable[s] = Shuffled(s, 1)
          /\ \A i \in 1 .. MAlphabet - 1 :
                /\ 0 <= RowDraw(s, i) /\ RowDraw(s, i) <= i
                /\ NStates * MAlphabet <= RowCursor(s, i)
                /\ RowCursor(s, i) < 2 * NStates * MAlphabet
                /\ RowCursor(s, i) < Len(entropyUse.entropy)
                /\ entropyUse.deltaCursor <= RowCursor(s, i)
                /\ RowCursor(s, i) < entropyUse.cursor
    /\ entropyUse.cursor - entropyUse.deltaCursor = NStates * (MAlphabet - 1)
    /\ entropyUse.deltaCursor = NStates * MAlphabet
    /\ entropyUse.cursor <= 2 * NStates * MAlphabet

\* a rebuild for another key has a row whose first draw is neither 0 nor
\* m - 1, and a row whose last draw keeps perm[1] in place
C23_Witness ==
    /\ sharedKey # DefaultKey
    /\ \E s \in 0 .. NStates - 1 :
          /\ RowDraw(s, MAlphabet - 1) \notin {0, MAlphabet - 1}
          /\ builtTables.lambdaTable[s] # [k \in 0 .. MAlphabet - 1 |-> k]
    /\ \E s \in 0 .. NStates - 1 : RowDraw(s, 1) = 1

---------------------------------------------------------------------------
(* Properties of the generator's burn-in, under GeneratorSpec *)

\* for each key, the seed followed by its successive transitions
KeyOrbits == [key \in GeneratorKeys |-> Orbit(key)]

\* the number of values instance g returned before its stream number t
ReturnedBefore(g, t) == IF t = 1 THEN 0 ELSE Len(generators[g].returned[1])

\* the number of values instance g has returned in all
ReturnedInAll(g) ==
    IF generators[g].returned = << >> THEN 0
    ELSE ReturnedBefore(g, Len(generators[g].returned))
             + Len(generators[g].returned[Len(generators[g].returned)])

\* C24: a constructed LogisticMoore holds the state reached from the key's
\* seed by exactly stabilizationSteps transitions; the k-th value it returns
\* after construction is extracted from the state after exactly
\* stabilizationSteps + k transitions, one transition per value.
C24_BurnInOrdering ==
    \A g \in 1 .. Len(generators) :
        /\ generators[g].gen.stabilizationSteps = StabilizationSteps
        /\ KeyOrbits[generators[g].key][1] = _initializeSeed(generators[g].key)
        /\ generators[g].gen.state =
               KeyOrbits[generators[g].key][1 + StabilizationSteps + ReturnedInAll(g)]
        /\ \A t \in 1 .. Len(generators[g].returned) :
               \A i \in 1 .. Len(generators[g].returned[t]) :
                   generators[g].returned[t][i] =
                       Extract(KeyOrbits[generators[g].key]
                                   [1 + StabilizationSteps + ReturnedBefore(g, t) + i])

\* an instance has returned two streams, the first of StreamLen values, and
\* its values differ from one another and from the value of the burnt-in state
C24_Witness ==
    \E g \in 1 .. Len(generators) :
        /\ Len(generators[g].returned) = 2
        /\ Len(generators[g].returned[1]) = StreamLen
        /\ Len(generators[g].returned[2]) >= 1
        /\ generators[g].returned[2][1] # generators[g].returned[1][1]
        /\ generators[g].returned[1][1] #
               Extract(KeyOrbits[generators[g].key][1 + StabilizationSteps])

---------------------------------------------------------------------------
(* Properties of the state index and of the returned trajectory *)

\* a call record whose call ran every step on states inside the tables
StatesInRange(call) ==
    /\ ~call.threw
    /\ Len(call.visited) = Len(call.bytes)
    /\ \A k \in 1 .. Len(call.visited) : call.visited[k] \in 0 .. NStates - 1
    /\ call.endState \in 0 .. NStates - 1

\* C25: in encryptBytes and decryptBytes, for bytes in [0, m), currentState
\* is an integer in [0, n) at every step of the warm-up and of the data loop,
\* so no lookup in delta, lambdaTable or lambdaInv leaves the tables.
C25_StateIndexInRange ==
    /\ mealyMachine.currentState \in 0 .. NStates - 1
    /\ lastEnc.called => StatesInRange(lastEnc)
    /\ lastDec.called => StatesInRange(lastDec)

\* a long plaintext was encrypted and its ciphertext decrypted, the position
\* added to the delta entry having passed n
C25_Witness ==
    /\ lastEnc.called /\ lastDec.called
    /\ Len(lastEnc.bytes) > TrajectoryCap
    /\ lastDec.bytes = lastEnc.out
    /\ Len(lastDec.visited) > NStates
    /\ \E k \in 1 .. Len(lastEnc.visited) : lastEnc.visited[k] = NStates - 1

---------------------------------------------------------------------------
(* Properties of the cipher as a function of its input *)

\* an automaton with the given tables, as a build returns it
MachineOf(tables) ==
    [ n |-> tables.n, m |-> tables.m, currentState |-> 0, delta |-> tables.delta,
      lambdaTable |-> tables.lambdaTable, lambdaInv |-> tables.lambdaInv ]

\* the first p elements of seq
Prefix(seq, p) == SubSeq(seq, 1, p)

\* C26: the first len(P) bytes of encryptBytes(P ++ Q).ciphertext are
\* encryptBytes(P).ciphertext, for every split of the input into P ++ Q, and
\* likewise for decryptBytes and its plaintext.
C26_PrefixCausality ==
    /\ lastEnc.called =>
          \A p \in 0 .. Len(lastEnc.bytes) :
              encryptBytes(MachineOf(firstBuild[lastEnc.key]),
                           Prefix(lastEnc.bytes, p)).ciphertext
                  = Prefix(lastEnc.out, p)
    /\ lastDec.called =>
          \A p \in 0 .. Len(lastDec.bytes) :
              decryptBytes(MachineOf(builtTables), Prefix(lastDec.bytes, p)).plaintext
                  = Prefix(lastDec.out, p)

\* both calls processed more than 20 bytes, so P and Q can both be long, and
\* the outputs are not constant
C26_Witness ==
    /\ lastEnc.called /\ lastDec.called
    /\ Len(lastEnc.bytes) > TrajectoryCap
    /\ Len(lastDec.bytes) > TrajectoryCap
    /\ \E k \in 2 .. Len(lastEnc.out) : lastEnc.out[k] # lastEnc.out[1]
    /\ \E k \in 2 .. Len(lastDec.out) : lastDec.out[k] # lastDec.out[1]

\* P with the byte at position k (from 0) raised by d mod m, the rest kept
ChangedAt(P, k, d) == [P EXCEPT ![k + 1] = (@ + d) % MAlphabet]

\* P with every byte from position k (from 0) on raised by d mod m
ChangedFrom(P, k, d) ==
    [j \in 1 .. Len(P) |-> IF j > k THEN (P[j] + d) % MAlphabet ELSE P[j]]

\* ciphertexts C and D agree on positions 0 .. k-1 and differ at position k
FirstDifferenceAt(C, D, k) ==
    /\ Len(C) = Len(D)
    /\ \A j \in 1 .. k : C[j] = D[j]
    /\ C[k + 1] # D[k + 1]

\* C27: plaintexts of equal length that agree on positions 0..k-1 and differ
\* at position k encrypt, under the same key, to ciphertexts that agree on
\* positions 0..k-1 and differ at position k.
C27_FirstDifferencePreserved ==
    lastEnc.called =>
        \A k \in 0 .. Len(lastEnc.bytes) - 1 : \A d \in 1 .. MAlphabet - 1 :
            /\ FirstDifferenceAt(
                   lastEnc.out,
                   encryptBytes(MachineOf(firstBuild[lastEnc.key]),
                                ChangedAt(lastEnc.bytes, k, d)).ciphertext, k)
            /\ FirstDifferenceAt(
                   lastEnc.out,
                   encryptBytes(MachineOf(firstBuild[lastEnc.key]),
                                ChangedFrom(lastEnc.bytes, k, d)).ciphertext, k)

\* a long plaintext was encrypted under the empty key; changing one byte in
\* the middle changes a later ciphertext byte as well
C27_Witness ==
    /\ lastEnc.called /\ lastEnc.key = << >>
    /\ Len(lastEnc.bytes) > TrajectoryCap
    /\ \E j \in 12 .. Len(lastEnc.out) :
          encryptBytes(MachineOf(firstBuild[lastEnc.key]),
                       ChangedAt(lastEnc.bytes, 10, 1)).ciphertext[j] # lastEnc.out[j]

\* the tables of the automaton the latest encryptBytes call ran on
EncTables == firstBuild[lastEnc.key]

\* the next state of a step at position t (from 0) in state s on byte x
StepTarget(s, x, t) == (EncTables.delta[s][x] + t) % NStates

\* C28: in the trajectory encryptBytes returns, the first entry's s is the
\* warm-up state, every entry has o = lambdaTable[s][i] and
\* sPrime = (delta[s][i] + t) mod n, each entry's s is the sPrime of the one
\* before, and currentState at return is the sPrime of the last step
\* processed (recorded or not).
C28_TrajectoryConsistent ==
    lastEnc.called =>
        /\ lastEnc.trajectory # << >>
              => lastEnc.trajectory[1].s = WarmedState(EncTables.delta)
        /\ \A k \in 1 .. Len(lastEnc.trajectory) :
              /\ lastEnc.trajectory[k].i = lastEnc.bytes[k]
              /\ lastEnc.trajectory[k].o =
                     EncTables.lambdaTable[lastEnc.trajectory[k].s][lastEnc.trajectory[k].i]
              /\ lastEnc.trajectory[k].sPrime =
                     StepTarget(lastEnc.trajectory[k].s, lastEnc.trajectory[k].i,
                                lastEnc.trajectory[k].t)
        /\ \A k \in 1 .. Len(lastEnc.trajectory) - 1 :
              lastEnc.trajectory[k + 1].s = lastEnc.trajectory[k].sPrime
        /\ (lastEnc.bytes # << >> /\ Len(lastEnc.bytes) <= TrajectoryCap)
              => lastEnc.endState = lastEnc.trajectory[Len(lastEnc.bytes)].sPrime
        /\ lastEnc.bytes # << >>
              => lastEnc.endState =
                     StepTarget(lastEnc.visited[Len(lastEnc.bytes)],
                                lastEnc.bytes[Len(lastEnc.bytes)], Len(lastEnc.bytes) - 1)
        /\ \A k \in 1 .. Len(lastEnc.bytes) - 1 :
              lastEnc.visited[k + 1] = StepTarget(lastEnc.visited[k], lastEnc.bytes[k], k - 1)

\* a plaintext longer than the cap was encrypted: the trajectory is full, its
\* states change along the chain, and the last step processed is not recorded
C28_Witness ==
    /\ lastEnc.called
    /\ Len(lastEnc.trajectory) = TrajectoryCap
    /\ Len(lastEnc.bytes) > TrajectoryCap
    /\ \E k \in 1 .. TrajectoryCap : lastEnc.trajectory[k].sPrime # lastEnc.trajectory[k].s
    /\ lastEnc.endState # lastEnc.trajectory[TrajectoryCap].sPrime

============================================================================
